---- MODULE Spec2Model ----
(***************************************************************************)
(* Push-to-talk recording controller (useAudioRecording), the capture      *)
(* session it drives (AudioRecorder) and the transmission client           *)
(* (HttpClient), as one state machine.  Every handler runs to its next     *)
(* real suspension point in one step: the permission request               *)
(* (getUserMedia), the MediaRecorder stop event, the fetch and the read of *)
(* the response body are the places where other handlers can interleave.   *)
(***************************************************************************)
EXTENDS Integers, Sequences, FiniteSets, TLC

\* ------------------------------------------------------------------ bounds
MaxChunkSize == 2   \* largest size of one dataavailable blob
MaxChunks    == 2   \* largest length of the chunk buffer
MaxInFlight  == 2   \* pending permission requests + stop events + sends
MaxTimers    == 2   \* pending setTimeout callbacks
MaxStarts    == 2   \* recordings started on a capture session driven directly

\* --------------------------------------------------------------- constants
OkLow        == 200 \* response.ok is status in 200..299
OkHigh       == 299

Endpoint == "https://example.com/webhook"
OtherEndpoint == "https://example.org/upload"

\* messages of the controller
MsgEndpointNotConfigured == "Endpoint not configured"
MsgConnectionLost        == "Microphone connection lost"
MsgConfigurationRemoved  == "Endpoint configuration removed"
MsgAccessDenied          == "Microphone access denied. Please allow microphone access and try again."
MsgNoMicrophone          == "No microphone found. Please connect a microphone and try again."
\* messages of the capture session
MsgNotInitialized        == "Audio recorder not initialized"
MsgAlreadyRecording      == "Already recording"
MsgUnsupportedFormat     == "Audio format is not supported by this browser"
MsgFailedToStart         == "Failed to start recording"
MsgNoActiveRecording     == "No active recording"
MsgRecordingNotActive    == "Recording not active"
MsgNoAudioData           == "No audio data recorded"
MsgPermissionDenied      == "Permission denied - microphone access was blocked"
MsgNoDevice              == "NotFoundError - no microphone device found"
\* messages of the transmission client
MsgEndpointRequired      == "Endpoint URL is required"
MsgBlobEmpty             == "Audio blob is empty or invalid"
MsgTimeout               == "Request timeout - the endpoint took too long to respond"
MsgFailedToFetch         == "Failed to fetch"
Msg400                   == "Bad request - the audio file or request format is invalid"
Msg401                   == "Unauthorized - authentication required"
Msg403                   == "Forbidden - access denied to the endpoint"
Msg404                   == "Endpoint not found - check the configured URL"
Msg413                   == "Audio file too large - try a shorter recording"
Msg422                   == "Unprocessable entity - audio format not accepted"
Msg429                   == "Too many requests - please wait before sending again"
Msg500                   == "Server error - the endpoint is experiencing issues"
Msg502                   == "Bad gateway - endpoint server is down or unreachable"
Msg503                   == "Service unavailable - endpoint temporarily unavailable"
Msg504                   == "Gateway timeout - endpoint server took too long to respond"
MsgUnknownError          == "Unknown error"
MsgSentOk                == "Audio sent successfully"
\* what a server can supply: response.statusText, the message field of a
\* JSON body, a text body
ReasonPhrase             == "reason phrase"
ServerMessage            == "message of the JSON body"
TextBody                 == "text body"

\* platform errors getUserMedia rejects with
PlatformErrors == {"NotAllowedError", "NotFoundError"}
\* HTTP statuses the endpoint answers with
Statuses == {200, 404, 500}

RecordingStatus == {"idle", "recording", "transmitting", "success", "error"}

VARIABLES
    \* useAudioRecording refs
    isRecording, isTransmitting, canRecord, recordingStatus, errorMessage,
    \* the Configuration object the controller was created with
    configuration,
    \* AudioRecorder fields
    stream,         \* "none" (null) | "live" | "ended" (tracks ended)
    mediaRecorder,  \* "null" | "recording" | "inactive"
    audioChunks,    \* sizes of the buffered blobs
    \* runtime: MediaRecorder.isTypeSupported(getMimeType(format))
    typeSupported,
    \* suspended operations
    pendingInit,    \* callers suspended on audioRecorder.initialize()
    pendingStop,    \* MediaRecorder stop events not yet dispatched (FIFO)
    pendingSend,    \* httpClient.sendAudio calls in flight, each with the
                    \* number of POST requests it issued
    timers,         \* pending setTimeout callbacks, in arming order
    \* history
    delivered,      \* bytes delivered to the current MediaRecorder
    unsent,         \* accepted stops whose transmission was not attempted yet
    lastOp,         \* the handler that made the last step, when a claim names it
    limit,          \* the bounds of this exploration
    seen,           \* distinct status values observed (SpecCycle only)
    \* outside the controller
    store,          \* useConfiguration: the endpoint and audioFormat refs
    hidden,         \* document.hidden
    result,         \* outcome of the last direct call of the client (SpecHttp)
                    \* or of the capture session (SpecSession)
    recordingStartTime, \* AudioRecorder field, as the number of recordings
                        \* started (SpecSession only: nothing reads it but a log)
    supported,      \* runtime: the MIME types MediaRecorder.isTypeSupported accepts
    button          \* PushToTalkButton: isPressed, the pointer being held on
                    \* the button, the last event emitted and the parity of
                    \* the number of events emitted (SpecButton only)

ctl   == <<isRecording, isTransmitting, canRecord, recordingStatus, errorMessage>>
rec   == <<stream, mediaRecorder, audioChunks>>
async == <<pendingInit, pendingStop, pendingSend>>
env   == <<configuration, typeSupported, limit>>
core  == <<ctl, env, rec, async, timers, delivered, unsent, lastOp>>
outside == <<store, hidden, result, recordingStartTime, supported, button>>
vars  == <<core, seen, outside>>

\* ----------------------------------------------------------------- helpers
RECURSIVE Sum(_)
Sum(s) == IF s = <<>> THEN 0 ELSE Head(s) + Sum(Tail(s))

Remove(s, i) == [j \in 1..(Len(s) - 1) |-> IF j < i THEN s[j] ELSE s[j + 1]]

InFlight == pendingInit.start + pendingInit.request + Len(pendingStop) + Len(pendingSend)

\* isActive as a guard that forgets the transmission
isActiveRecordingOnly == isRecording

\* computed isActive
isActive == isRecording \/ isTransmitting

\* a stop guard that also lets a transmitting controller through
canStopWhileActive == isRecording \/ isTransmitting

\* stopRecording's entry guard
canStop == isRecording

\* ------------------------------------------------------------------ timers
\* A timer is [kind, message, stale]; stale is history: a revert timer is
\* stale once the status changed after it was armed, an error timer once a
\* newer error was set after it was armed.
Age(ts, statusChanged, errorSet) ==
    [i \in DOMAIN ts |->
        [ts[i] EXCEPT !.stale = @ \/ (IF ts[i].kind = "revert" THEN statusChanged
                                                               ELSE errorSet)]]

ErrorTimer(message) == [kind |-> "error", message |-> message, stale |-> FALSE]
RevertTimer == [kind |-> "revert", message |-> "", stale |-> FALSE]

\* clearError: the status it leaves, from status st with canRecord cr
clearErrorStatus(st, cr) ==
    IF st = "error" THEN (IF cr THEN "idle" ELSE "error") ELSE st

\* setError(message) as the last effect of a handler
setError(message) ==
    /\ Len(timers) < limit.timers
    /\ errorMessage' = message
    /\ recordingStatus' = "error"
    /\ timers' = Append(Age(timers, recordingStatus # "error", TRUE),
                        ErrorTimer(message))

\* a handler that sets no error and arms no timer
NoNewTimer == timers' = Age(timers, recordingStatus' # recordingStatus, FALSE)

\* -------------------------------------------------------- capture session
\* a startRecording that checks nothing
startRecordingUnguarded(strm) == ""

\* AudioRecorder.startRecording: the error it throws before creating the
\* MediaRecorder ("" when none), with the stream field being strm
startRecordingError(strm) ==
    IF strm = "none" THEN MsgNotInitialized
    ELSE IF mediaRecorder = "recording" THEN MsgAlreadyRecording
    ELSE IF ~typeSupported THEN MsgUnsupportedFormat
    ELSE ""

\* AudioRecorder.stopRecording: the error it rejects with at once ("" when
\* it calls mediaRecorder.stop() and waits for the stop event)
stopRecordingError ==
    IF mediaRecorder = "null" THEN MsgNoActiveRecording
    ELSE IF mediaRecorder = "inactive" THEN MsgRecordingNotActive
    ELSE ""

\* the dataavailable listener
pushChunk(chunks, size) == IF size > 0 THEN Append(chunks, size) ELSE chunks

\* a stop listener that builds the blob without looking at the buffer
stopListenerAlwaysResolves(chunks) == ""

\* the stop listener of stopRecording: error it rejects with, "" when it
\* resolves with the blob
stopListenerError(chunks) == IF Len(chunks) = 0 THEN MsgNoAudioData ELSE ""

\* new Blob(chunks).size
blobSize(chunks) == Sum(chunks)

\* -------------------------------------------------------------- MIME types
AudioFormats == {"webm", "mp3", "wav", "ogg"}

MIME_TYPE_MAP ==
    [format \in AudioFormats |->
        CASE format = "webm" -> <<"audio/webm;codecs=opus", "audio/webm;codecs=vorbis",
                                  "audio/webm">>
          [] format = "mp3"  -> <<"audio/mp3", "audio/mpeg">>
          [] format = "wav"  -> <<"audio/wav", "audio/wave", "audio/x-wav">>
          [] format = "ogg"  -> <<"audio/ogg;codecs=opus", "audio/ogg;codecs=vorbis",
                                  "audio/ogg">>]

\* every MIME type of the map
MimeTypes == UNION {{MIME_TYPE_MAP[f][i] : i \in DOMAIN MIME_TYPE_MAP[f]} : f \in AudioFormats}

\* a loop that finds no type supported
noneSupported(mimeTypes) == ""

\* the loop of getMimeType: the first type of the list the runtime supports,
\* "" when the loop ends without returning
RECURSIVE firstSupported(_)
firstSupported(mimeTypes) ==
    IF mimeTypes = <<>> THEN ""
    ELSE IF Head(mimeTypes) \in supported THEN Head(mimeTypes)
    ELSE firstSupported(Tail(mimeTypes))

\* a fallback to the last type of the list
fallbackLast(mimeTypes) == mimeTypes[Len(mimeTypes)]

\* the fallback of getMimeType: mimeTypes[0]
fallback(mimeTypes) == mimeTypes[1]

\* getMimeType(format): the value returned, or the error thrown for a format
\* the map does not have
getMimeType(format) ==
    IF format \notin DOMAIN MIME_TYPE_MAP
    THEN [kind |-> "thrown", format |-> format, value |-> ""]
    ELSE [kind |-> "mime", format |-> format,
          value |-> IF firstSupported(MIME_TYPE_MAP[format]) # ""
                    THEN firstSupported(MIME_TYPE_MAP[format])
                    ELSE fallback(MIME_TYPE_MAP[format])]

\* ------------------------------------------------------ transmission client
\* a sendAudio that checks neither the endpoint nor the blob
sendAudioUnchecked(endpoint, size) == ""

\* HttpClient.sendAudio: the error thrown before any request ("" when none)
sendAudioError(endpoint, size) ==
    IF endpoint = "" THEN MsgEndpointRequired
    ELSE IF size = 0 THEN MsgBlobEmpty
    ELSE ""

\* a response.ok that only looks at the lower end of the range
responseOkFrom200(status) == status >= OkLow

\* response.ok
responseOk(status) == status >= OkLow /\ status <= OkHigh

\* HttpClient.getErrorMessage
statusMessages ==
    [status \in {400, 401, 403, 404, 413, 422, 429, 500, 502, 503, 504} |->
        CASE status = 400 -> Msg400 [] status = 401 -> Msg401 [] status = 403 -> Msg403
          [] status = 404 -> Msg404 [] status = 413 -> Msg413 [] status = 422 -> Msg422
          [] status = 429 -> Msg429 [] status = 500 -> Msg500 [] status = 502 -> Msg502
          [] status = 503 -> Msg503 [] status = 504 -> Msg504]

\* a getErrorMessage that prefers what the server sent
serverMessageFirst(status, originalMessage) ==
    IF originalMessage # "" THEN originalMessage
    ELSE IF status \in DOMAIN statusMessages THEN statusMessages[status]
    ELSE "HTTP error " \o ToString(status)

getErrorMessage(status, originalMessage) ==
    IF status \in DOMAIN statusMessages THEN statusMessages[status]
    ELSE IF originalMessage # "" THEN originalMessage
    ELSE "HTTP error " \o ToString(status)

\* HttpClient.handleResponse: what the body contributes to the message; a
\* body is "json:message" (JSON with a message field), "json:plain" (JSON
\* without one), "json:invalid" (parsing throws), "text" or "text:empty"
bodyMessage(body) ==
    IF body = "json:message" THEN ServerMessage
    ELSE IF body = "text" THEN TextBody
    ELSE ""

\* HttpClient.handleResponse: the TransmissionResult
handleResponse(status, statusText, body) ==
    LET initial == IF statusText # "" THEN statusText ELSE MsgUnknownError
        message == IF bodyMessage(body) # "" THEN bodyMessage(body) ELSE initial
    IN  [success |-> responseOk(status),
         status  |-> status,
         message |-> IF ~responseOk(status) THEN getErrorMessage(status, message)
                     ELSE IF message # "" THEN message ELSE MsgSentOk]

\* a makeRequest that reports every rejection of fetch as a network failure
networkErrorOnly(name) == MsgFailedToFetch

\* HttpClient.makeRequest: the error it throws when fetch rejects with an
\* error of this name
makeRequestError(name) == IF name = "AbortError" THEN MsgTimeout ELSE MsgFailedToFetch

\* requestMicrophoneAccess: message for a rejected initialize()
accessErrorMessage(err) ==
    IF err = "NotAllowedError" THEN MsgAccessDenied ELSE MsgNoMicrophone

\* -------------------------------------------------------------------- Init
\* the state after useAudioRecording and onMounted(initializeRecorder)
Setup ==
    /\ isRecording = FALSE
    /\ isTransmitting = FALSE
    /\ canRecord = FALSE
    /\ recordingStatus = "idle"
    /\ errorMessage = ""
    /\ configuration \in {[endpoint |-> e, audioFormat |-> "webm"] : e \in {"", Endpoint}}
    /\ stream = "none"
    /\ mediaRecorder = "null"
    /\ audioChunks = <<>>
    /\ typeSupported \in BOOLEAN
    /\ pendingInit = [start |-> 0, request |-> 0]
    /\ pendingStop = <<>>
    /\ pendingSend = <<>>
    /\ timers = <<>>
    /\ delivered = 0
    /\ unsent = 0
    /\ lastOp = "mounted"
    /\ store = configuration
    /\ hidden = FALSE
    /\ result = [kind |-> "none", success |-> FALSE, status |-> 0, message |-> ""]
    /\ recordingStartTime = 0
    /\ button = [isPressed |-> FALSE, held |-> FALSE, emitted |-> "none", emits |-> 0]

\* a runtime that knows at most the preferred WebM type; typeSupported is
\* what startRecording's isTypeSupported(getMimeType('webm')) answers in it
Mounted ==
    /\ Setup
    /\ supported \in {{}, {"audio/webm;codecs=opus"}}
    /\ typeSupported = (getMimeType("webm").value \in supported)

\* the responses of an endpoint: a success, a missing route, a failing server
PlainResponses ==
    [statuses |-> Statuses, statusTexts |-> {""}, bodies |-> {"text:empty"}]

\* timers in depth, one chunk of one size
Init ==
    /\ Mounted
    /\ limit = [chunkSize |-> MaxChunkSize - 1, chunks |-> MaxChunks - 1,
                inFlight |-> MaxInFlight, timers |-> MaxTimers,
                responses |-> PlainResponses]
    /\ seen = <<>>

\* chunks in depth, one timer at a time
InitCapture ==
    /\ Mounted
    /\ limit = [chunkSize |-> MaxChunkSize, chunks |-> MaxChunks,
                inFlight |-> MaxInFlight, timers |-> MaxTimers - 1,
                responses |-> PlainResponses]
    /\ seen = <<>>

\* ------------------------------------------------------------- controller
\* The try block of startRecording (clearError, flags, audioRecorder
\* .startRecording, catch), with the stream field being strm.
TryStart(strm) ==
    LET err == startRecordingError(strm) IN
    \/ /\ err # ""
       /\ isRecording' = FALSE
       /\ setError(err)
       /\ UNCHANGED <<mediaRecorder, audioChunks, delivered>>
       /\ lastOp' = "-"
    \/ /\ err = ""
       /\ strm = "ended"
       \* MediaRecorder.start() may throw on a stream whose tracks ended
       /\ isRecording' = FALSE
       /\ setError(MsgFailedToStart)
       /\ mediaRecorder' = "inactive"
       /\ audioChunks' = <<>>
       /\ delivered' = 0
       /\ lastOp' = "-"
    \/ /\ err = ""
       /\ isRecording' = TRUE
       /\ recordingStatus' = "recording"
       /\ errorMessage' = ""
       /\ timers' = Age(timers, recordingStatus # "recording", FALSE)
       /\ mediaRecorder' = "recording"
       /\ audioChunks' = <<>>
       /\ delivered' = 0
       /\ lastOp' = "-"

\* a startRecording without the endpoint guard
endpointNotChecked == TRUE

\* the endpoint guard of startRecording
endpointConfigured == configuration.endpoint # ""

\* startRecording, up to its first suspension
StartRecording ==
    \/ /\ isActive
       /\ lastOp' = "startRecording:ignored"
       /\ UNCHANGED <<ctl, rec, env, async, timers,
                      delivered, unsent>>
    \/ /\ ~isActive
       /\ ~endpointConfigured
       /\ setError(MsgEndpointNotConfigured)
       /\ lastOp' = "-"
       /\ UNCHANGED <<isRecording, isTransmitting, canRecord, rec,
                      env, async, delivered, unsent>>
    \/ /\ ~isActive
       /\ endpointConfigured
       /\ ~canRecord
       /\ InFlight < limit.inFlight
       /\ pendingInit' = [pendingInit EXCEPT !.start = @ + 1]
       /\ lastOp' = "-"
       /\ UNCHANGED <<ctl, rec, env, pendingStop,
                      pendingSend, timers, delivered, unsent>>
    \/ /\ ~isActive
       /\ endpointConfigured
       /\ canRecord
       /\ TryStart(stream)
       /\ UNCHANGED <<isTransmitting, canRecord, stream,
                      env, async, unsent>>

\* App: needsPermission and handleButtonClick (PushToTalkButton start-recording)
needsPermission == ~canRecord /\ recordingStatus = "idle" /\ errorMessage = ""

HandleButtonClick ==
    /\ needsPermission
    /\ InFlight < limit.inFlight
    /\ pendingInit' = [pendingInit EXCEPT !.request = @ + 1]
    /\ lastOp' = "-"
    /\ UNCHANGED <<ctl, rec, env, pendingStop,
                   pendingSend, timers, delivered, unsent>>

\* audioRecorder.initialize() resolves: requestMicrophoneAccess continues,
\* and startRecording after it when it was the caller
InitializeGranted(caller) ==
    /\ pendingInit[caller] > 0
    /\ pendingInit' = [pendingInit EXCEPT ![caller] = @ - 1]
    /\ stream' = "live"
    /\ canRecord' = TRUE
    /\ IF caller = "start"
       THEN /\ TryStart("live")
            /\ UNCHANGED <<isTransmitting, env,
                           pendingStop, pendingSend, unsent>>
       ELSE /\ recordingStatus' = "idle"
            /\ errorMessage' = ""
            /\ NoNewTimer
            /\ lastOp' = "-"
            /\ UNCHANGED <<isRecording, isTransmitting, mediaRecorder, audioChunks, env, pendingStop,
                           pendingSend, delivered, unsent>>

\* audioRecorder.initialize() rejects because getUserMedia failed with err
InitializeRejects(caller, err) ==
    /\ pendingInit[caller] > 0
    /\ pendingInit' = [pendingInit EXCEPT ![caller] = @ - 1]
    /\ canRecord' = FALSE
    /\ recordingStatus' = "error"
    /\ errorMessage' = accessErrorMessage(err)
    /\ timers' = Age(timers, recordingStatus # "error", TRUE)
    /\ lastOp' = "-"
    /\ UNCHANGED <<isRecording, isTransmitting, rec,
                   env, pendingStop, pendingSend, delivered, unsent>>

InitializeDenied(caller) == \E err \in PlatformErrors : InitializeRejects(caller, err)

\* the catch and finally blocks of stopRecording
CatchStop(message) ==
    /\ setError(message)
    /\ isTransmitting' = FALSE

\* stopRecording, up to its first suspension
StopRecording ==
    \/ /\ ~canStop
       /\ lastOp' = "stopRecording:ignored"
       /\ UNCHANGED <<ctl, rec, env, async, timers,
                      delivered, unsent>>
    \/ /\ canStop
       /\ stopRecordingError # ""
       /\ isRecording' = FALSE
       /\ CatchStop(stopRecordingError)
       /\ lastOp' = "stopRecording:failed"
       /\ UNCHANGED <<canRecord, rec, env, async,
                      delivered, unsent>>
    \/ /\ canStop
       /\ stopRecordingError = ""
       /\ InFlight < limit.inFlight
       /\ isRecording' = FALSE
       /\ recordingStatus' = "transmitting"
       /\ isTransmitting' = TRUE
       /\ NoNewTimer
       /\ mediaRecorder' = "inactive"
       /\ pendingStop' = Append(pendingStop, [awaited |-> TRUE, delivered |-> delivered])
       /\ delivered' = 0
       /\ unsent' = unsent + 1
       /\ lastOp' = "-"
       /\ UNCHANGED <<canRecord, errorMessage, stream, audioChunks,
                      env, pendingInit, pendingSend>>

\* a dataavailable event of the recording MediaRecorder
DataAvailable ==
    /\ mediaRecorder = "recording"
    /\ \E size \in 0..limit.chunkSize :
          /\ size > 0 => Len(audioChunks) < limit.chunks
          /\ audioChunks' = pushChunk(audioChunks, size)
          /\ delivered' = delivered + size
    /\ lastOp' = "-"
    /\ UNCHANGED <<ctl, stream, mediaRecorder, env, async,
                   timers, unsent>>

\* a stopRecording that reads the format from the configuration store
storeFormat == store.audioFormat

\* audioFormat of the transmission options (and the extension of the
\* filename) that stopRecording builds: configuration.audioFormat, read at
\* that moment from the object startRecording read it from
transmissionFormat == configuration.audioFormat

\* additionalFields.duration of the transmission options that stopRecording
\* builds: the literal 'unknown', whatever the recording
durationField == "unknown"

\* The last dataavailable and the stop event of a stopped MediaRecorder;
\* stopRecording continues when it waits for it: the blob, the transmission
\* options, and sendAudio up to the fetch.
StopEvent ==
    /\ pendingStop # <<>>
    /\ pendingStop' = Tail(pendingStop)
    /\ \E size \in 0..limit.chunkSize :
          LET chunks   == pushChunk(audioChunks, size)
              err      == stopListenerError(chunks)
              sendErr  == sendAudioError(configuration.endpoint, blobSize(chunks))
          IN
          /\ size > 0 => Len(audioChunks) < limit.chunks
          /\ audioChunks' = chunks
          /\ \/ /\ ~Head(pendingStop).awaited
                /\ lastOp' = "-"
                /\ UNCHANGED <<ctl, pendingSend, timers, unsent>>
             \/ /\ Head(pendingStop).awaited
                /\ err # ""
                /\ CatchStop(err)
                /\ unsent' = unsent - 1
                /\ lastOp' = "stopRecording:failed"
                /\ UNCHANGED <<isRecording, canRecord, pendingSend>>
             \/ /\ Head(pendingStop).awaited
                /\ err = ""
                /\ sendErr # ""
                /\ CatchStop(sendErr)
                /\ unsent' = unsent - 1
                /\ lastOp' = "stopRecording:failed"
                /\ UNCHANGED <<isRecording, canRecord, pendingSend>>
             \/ /\ Head(pendingStop).awaited
                /\ err = ""
                /\ sendErr = ""
                /\ pendingSend' = Append(pendingSend,
                       [phase |-> "fetch", status |-> 0, statusText |-> "",
                        size |-> blobSize(chunks), requests |-> 1,
                        endpoint |-> configuration.endpoint,
                        format |-> transmissionFormat,
                        duration |-> durationField])
                /\ unsent' = unsent - 1
                /\ lastOp' = "-"
                /\ UNCHANGED <<ctl, timers>>
    /\ UNCHANGED <<stream, mediaRecorder, env, pendingInit,
                   delivered>>

\* fetch resolves with a response: makeRequest returns, handleResponse reads
\* the body
FetchResponds(i) ==
    /\ pendingSend[i].phase = "fetch"
    /\ \E status \in limit.responses.statuses, statusText \in limit.responses.statusTexts :
          pendingSend' = [pendingSend EXCEPT ![i].phase = "body", ![i].status = status,
                                             ![i].statusText = statusText]
    /\ lastOp' = "-"
    /\ UNCHANGED <<ctl, rec, env, pendingInit, pendingStop,
                   timers, delivered, unsent>>

\* a makeRequest that issues the request again when fetch rejects
retryRequest(sends, i) == [sends EXCEPT ![i].requests = @ + 1]

\* the catch block of makeRequest: the error is rethrown and the call ends
rethrow(sends, i) == Remove(sends, i)

\* fetch rejects with an error of this name: "TypeError" (no response) or
\* "AbortError" (aborted by the 30 s timer of makeRequest)
FetchRejects(i, name) ==
    /\ pendingSend[i].phase = "fetch"
    /\ pendingSend' = rethrow(pendingSend, i)
    /\ CatchStop(makeRequestError(name))
    /\ lastOp' = "stopRecording:failed"
    /\ UNCHANGED <<isRecording, canRecord, rec, env,
                   pendingInit, pendingStop, delivered, unsent>>

FetchFails(i) == \E name \in {"TypeError", "AbortError"} : FetchRejects(i, name)

\* the body is read: handleResponse returns the result, stopRecording ends
BodyRead(i) ==
    /\ pendingSend[i].phase = "body"
    /\ pendingSend' = Remove(pendingSend, i)
    /\ \E body \in limit.responses.bodies :
          LET r == handleResponse(pendingSend[i].status, pendingSend[i].statusText, body) IN
          \/ /\ r.success
             /\ Len(timers) < limit.timers
             /\ recordingStatus' = "success"
             /\ timers' = Append(Age(timers, recordingStatus # "success", FALSE), RevertTimer)
             /\ isTransmitting' = FALSE
             /\ lastOp' = "-"
             /\ UNCHANGED errorMessage
          \/ /\ ~r.success
             /\ CatchStop(r.message)
             /\ lastOp' = "stopRecording:failed"
    /\ UNCHANGED <<isRecording, canRecord, rec, env,
                   pendingInit, pendingStop, delivered, unsent>>

\* a timer may fire when no timer armed before it is due before it: an error
\* timer (5 s) after every timer armed before it, a revert timer (2 s) after
\* the revert timers armed before it
Due(i) ==
    IF timers[i].kind = "error" THEN i = 1
    ELSE \A j \in 1..(i - 1) : timers[j].kind # "revert"

\* the setTimeout callback of stopRecording (revert) or of setError (error)
TimerFires(i) ==
    /\ Due(i)
    /\ IF timers[i].kind = "revert"
       THEN /\ recordingStatus' = (IF recordingStatus = "success" THEN "idle"
                                                                  ELSE recordingStatus)
            /\ UNCHANGED errorMessage
            /\ lastOp' = "-"
       ELSE /\ IF errorMessage = timers[i].message
               THEN /\ errorMessage' = ""
                    /\ recordingStatus' = clearErrorStatus(recordingStatus, canRecord)
               ELSE UNCHANGED <<errorMessage, recordingStatus>>
            /\ lastOp' = "-"
    /\ timers' = Age(Remove(timers, i), recordingStatus' # recordingStatus, FALSE)
    /\ UNCHANGED <<isRecording, isTransmitting, canRecord, rec,
                   env, async, delivered, unsent>>

\* an isMicrophoneActive that only asks whether a stream is held
streamHeld == stream # "none"

\* AudioRecorder.isReady and isMicrophoneActive
isReady == stream # "none"
isMicrophoneActive == stream = "live"

\* the periodic health check
CheckRecorderHealth ==
    \/ /\ isReady /\ isMicrophoneActive
       /\ lastOp' = "-"
       /\ UNCHANGED <<ctl, timers>>
    \/ /\ ~(isReady /\ isMicrophoneActive)
       /\ recordingStatus # "error"
       /\ canRecord' = FALSE
       /\ setError(MsgConnectionLost)
       /\ lastOp' = "-"
       /\ UNCHANGED <<isRecording, isTransmitting>>
    \/ /\ ~(isReady /\ isMicrophoneActive)
       /\ recordingStatus = "error"
       /\ canRecord' = FALSE
       /\ lastOp' = "-"
       /\ UNCHANGED <<isRecording, isTransmitting, recordingStatus, errorMessage, timers>>

CheckHealth ==
    /\ CheckRecorderHealth
    /\ UNCHANGED <<rec, env, async, delivered, unsent>>

\* resetRecording, with AudioRecorder.cleanup when a recording is active
ResetRecording ==
    /\ IF isRecording
       THEN /\ mediaRecorder' = "null"
            /\ stream' = "none"
            /\ audioChunks' = <<>>
            /\ delivered' = 0
            /\ IF mediaRecorder = "recording"
               THEN /\ InFlight < limit.inFlight
                    /\ pendingStop' = Append(pendingStop,
                           [awaited |-> FALSE, delivered |-> delivered])
               ELSE UNCHANGED pendingStop
       ELSE UNCHANGED <<rec, delivered, pendingStop>>
    /\ isRecording' = FALSE
    /\ isTransmitting' = FALSE
    /\ recordingStatus' = (IF canRecord THEN "idle" ELSE "error")
    /\ errorMessage' = ""
    /\ NoNewTimer
    /\ lastOp' = "-"
    /\ UNCHANGED <<canRecord, env, pendingInit, pendingSend,
                   unsent>>

\* ------------------------------------------------------------- environment
\* the tracks of the stream end (device unplugged, permission revoked)
DeviceLost ==
    /\ stream = "live"
    /\ stream' = "ended"
    /\ lastOp' = "-"
    /\ UNCHANGED <<ctl, mediaRecorder, audioChunks, env,
                   async, timers, delivered, unsent>>

\* a MediaRecorder whose tracks all ended stops by itself
RecorderEnds ==
    /\ mediaRecorder = "recording"
    /\ stream = "ended"
    /\ InFlight < limit.inFlight
    /\ mediaRecorder' = "inactive"
    /\ pendingStop' = Append(pendingStop, [awaited |-> FALSE, delivered |-> delivered])
    /\ delivered' = 0
    /\ lastOp' = "-"
    /\ UNCHANGED <<ctl, stream, audioChunks, env,
                   pendingInit, pendingSend, timers, unsent>>

\* -------------------------------------------------------------------- Spec
Next ==
    \/ StartRecording /\ UNCHANGED <<seen, outside>>
    \/ HandleButtonClick /\ UNCHANGED <<seen, outside>>
    \/ \E caller \in {"start", "request"} : InitializeGranted(caller) /\ UNCHANGED <<seen, outside>>
    \/ \E caller \in {"start", "request"} : InitializeDenied(caller) /\ UNCHANGED <<seen, outside>>
    \/ StopRecording /\ UNCHANGED <<seen, outside>>
    \/ DataAvailable /\ UNCHANGED <<seen, outside>>
    \/ StopEvent /\ UNCHANGED <<seen, outside>>
    \/ \E i \in DOMAIN pendingSend : FetchResponds(i) /\ UNCHANGED <<seen, outside>>
    \/ \E i \in DOMAIN pendingSend : FetchFails(i) /\ UNCHANGED <<seen, outside>>
    \/ \E i \in DOMAIN pendingSend : BodyRead(i) /\ UNCHANGED <<seen, outside>>
    \/ \E i \in DOMAIN timers : TimerFires(i) /\ UNCHANGED <<seen, outside>>
    \/ CheckHealth /\ UNCHANGED <<seen, outside>>
    \/ ResetRecording /\ UNCHANGED <<seen, outside>>
    \/ DeviceLost /\ UNCHANGED <<seen, outside>>
    \/ RecorderEnds /\ UNCHANGED <<seen, outside>>

Spec == Init /\ [][Next]_vars

SpecCapture == InitCapture /\ [][Next]_vars

\* ------------------------------------------------- the configuration store
\* useConfiguration.  App created the controller with configuration.value,
\* the plain object the computed held at setup: the operations of the store
\* assign its refs and leave that object, hence the controller's
\* configuration and the source of its endpoint watch, as they are.
\* updateEndpoint: new URL(newEndpoint) throws for the empty string
UpdateEndpoint(newEndpoint) ==
    /\ newEndpoint # ""
    /\ store' = [store EXCEPT !.endpoint = newEndpoint]
    /\ UNCHANGED <<core, seen, hidden, result, recordingStartTime, supported, button>>

UpdateAudioFormat(newFormat) ==
    /\ store' = [store EXCEPT !.audioFormat = newFormat]
    /\ UNCHANGED <<core, seen, hidden, result, recordingStartTime, supported, button>>

\* resetConfiguration, without environment variables
ResetConfiguration ==
    /\ store' = [endpoint |-> "", audioFormat |-> "webm"]
    /\ UNCHANGED <<core, seen, hidden, result, recordingStartTime, supported, button>>

\* one operation in flight at a time, the store changing at any moment
InitConfig ==
    /\ Mounted
    /\ typeSupported
    /\ limit = [chunkSize |-> MaxChunkSize - 1, chunks |-> MaxChunks - 1,
                inFlight |-> MaxInFlight - 1, timers |-> MaxTimers - 1,
                responses |-> PlainResponses]
    /\ seen = <<>>

NextConfig ==
    \/ Next
    \/ \E newEndpoint \in {"", Endpoint, OtherEndpoint} : UpdateEndpoint(newEndpoint)
    \/ \E newFormat \in {"webm", "wav"} : UpdateAudioFormat(newFormat)
    \/ ResetConfiguration

SpecConfig == InitConfig /\ [][NextConfig]_vars

\* ------------------------------------------------------- page visibility
stopOnHideNever(nowHidden) == FALSE

\* the test of handleVisibilityChange: document.hidden && isRecording.value
stopOnHide(nowHidden) == nowHidden /\ isRecording

\* handleVisibilityChange, run by a visibilitychange event that leaves
\* document.hidden = nowHidden; stopRecording runs up to its first suspension
handleVisibilityChange(nowHidden) ==
    /\ hidden' = nowHidden
    /\ IF stopOnHide(nowHidden)
       THEN StopRecording
       ELSE /\ lastOp' = "-"
            /\ UNCHANGED <<ctl, env, rec, async, timers, delivered, unsent>>
    /\ UNCHANGED <<seen, store, result, recordingStartTime, supported, button>>

PageHidden == ~hidden /\ handleVisibilityChange(TRUE)

PageVisible == hidden /\ handleVisibilityChange(FALSE)

NextPage ==
    \/ Next
    \/ PageHidden
    \/ PageVisible

SpecPage == Init /\ [][NextPage]_vars

\* --------------------------------------------- every kind of response
\* statuses on both sides of the 2xx range, the well-known error codes, two
\* codes without a fixed explanation (300, 418); with and without a reason
\* phrase; every kind of body
AllResponses ==
    [statuses    |-> {200, 204, 299, 300, 400, 401, 403, 404, 413, 418, 422, 429,
                      500, 502, 503, 504},
     statusTexts |-> {"", ReasonPhrase},
     bodies      |-> {"json:message", "json:plain", "json:invalid", "text", "text:empty"}]

\* the controller with one operation in flight at a time and every response
InitResponse ==
    /\ Mounted
    /\ configuration.endpoint = Endpoint
    /\ typeSupported
    /\ limit = [chunkSize |-> MaxChunkSize - 1, chunks |-> MaxChunks - 1,
                inFlight |-> MaxInFlight - 1, timers |-> MaxTimers - 1,
                responses |-> AllResponses]
    /\ seen = <<>>

SpecResponse == InitResponse /\ [][Next]_vars

\* ----------------------------------------- the transmission client alone
\* httpClient.sendAudio called directly; result is what the last call that
\* made a step threw or returned
Thrown(message) ==
    [kind |-> "thrown", success |-> FALSE, status |-> 0, message |-> message]

Returned(r) ==
    [kind |-> "returned", success |-> r.success, status |-> r.status, message |-> r.message]

\* sendAudio(blob of this size, {endpoint, audioFormat: 'webm'}), up to its fetch
SendAudioCall(endpoint, size) ==
    /\ IF sendAudioError(endpoint, size) # ""
       THEN /\ result' = Thrown(sendAudioError(endpoint, size))
            /\ UNCHANGED pendingSend
       ELSE /\ InFlight < limit.inFlight
            /\ pendingSend' = Append(pendingSend,
                   [phase |-> "fetch", status |-> 0, statusText |-> "",
                    size |-> size, requests |-> 1,
                    endpoint |-> endpoint, format |-> "webm"])
            /\ result' = [kind |-> "pending", success |-> FALSE, status |-> 0,
                          message |-> ""]
    /\ UNCHANGED <<ctl, rec, env, pendingInit, pendingStop, timers, delivered,
                   unsent, lastOp, seen, store, hidden, recordingStartTime,
                   supported, button>>

SendAudio ==
    \E endpoint \in {"", Endpoint}, size \in 0..limit.chunkSize :
        SendAudioCall(endpoint, size)

\* fetch rejects: sendAudio rethrows the error of makeRequest
SendAudioRejects(i) ==
    /\ pendingSend[i].phase = "fetch"
    /\ pendingSend' = rethrow(pendingSend, i)
    /\ \E name \in {"TypeError", "AbortError"} : result' = Thrown(makeRequestError(name))
    /\ UNCHANGED <<ctl, rec, env, pendingInit, pendingStop, timers, delivered,
                   unsent, lastOp, seen, store, hidden, recordingStartTime,
                   supported, button>>

\* the body is read: sendAudio returns the result of handleResponse
SendAudioReturns(i) ==
    /\ pendingSend[i].phase = "body"
    /\ pendingSend' = Remove(pendingSend, i)
    /\ \E body \in limit.responses.bodies :
          result' = Returned(handleResponse(pendingSend[i].status,
                                            pendingSend[i].statusText, body))
    /\ UNCHANGED <<ctl, rec, env, pendingInit, pendingStop, timers, delivered,
                   unsent, lastOp, seen, store, hidden, recordingStartTime,
                   supported, button>>

InitHttp ==
    /\ Mounted
    /\ configuration.endpoint = Endpoint
    /\ typeSupported
    /\ limit = [chunkSize |-> MaxChunkSize, chunks |-> MaxChunks,
                inFlight |-> MaxInFlight - 1, timers |-> MaxTimers,
                responses |-> AllResponses]
    /\ seen = <<>>

NextHttp ==
    \/ SendAudio
    \/ \E i \in DOMAIN pendingSend : FetchResponds(i) /\ UNCHANGED <<seen, outside>>
    \/ \E i \in DOMAIN pendingSend : SendAudioRejects(i)
    \/ \E i \in DOMAIN pendingSend : SendAudioReturns(i)

SpecHttp == InitHttp /\ [][NextHttp]_vars

\* ------------------------------------------- the capture session alone
\* The methods of AudioRecorder called directly; result is what the last
\* call that made a step threw or returned.
Void == [kind |-> "void"]

BlobOf(size) == [kind |-> "blob", size |-> size]

\* the fields of the session
session == <<stream, mediaRecorder, audioChunks, recordingStartTime>>

\* what no method of the session touches
beyondSession == <<ctl, env, pendingSend, timers, unsent, lastOp, seen, store, hidden,
                   supported, button>>

\* initialize(), up to its await of getUserMedia
SessionInitialize ==
    /\ InFlight < limit.inFlight
    /\ pendingInit' = [pendingInit EXCEPT !.request = @ + 1]
    /\ result' = [kind |-> "pending"]
    /\ UNCHANGED <<session, pendingStop, delivered, beyondSession>>

\* getUserMedia resolves
SessionInitializeResolves ==
    /\ pendingInit.request > 0
    /\ pendingInit' = [pendingInit EXCEPT !.request = @ - 1]
    /\ stream' = "live"
    /\ result' = Void
    /\ UNCHANGED <<mediaRecorder, audioChunks, recordingStartTime, pendingStop,
                   delivered, beyondSession>>

\* initialize: the error thrown when getUserMedia rejects with err
initializeError(err) ==
    IF err = "NotAllowedError" THEN MsgPermissionDenied ELSE MsgNoDevice

SessionInitializeRejects ==
    /\ pendingInit.request > 0
    /\ pendingInit' = [pendingInit EXCEPT !.request = @ - 1]
    /\ \E err \in PlatformErrors : result' = Thrown(initializeError(err))
    /\ UNCHANGED <<session, pendingStop, delivered, beyondSession>>

\* startRecording(format)
SessionStartRecording ==
    /\ LET err == startRecordingError(stream) IN
       \/ /\ err # ""
          /\ result' = Thrown(err)
          /\ UNCHANGED <<session, delivered>>
       \/ /\ err = ""
          /\ stream = "ended"
          \* MediaRecorder.start() may throw on a stream whose tracks ended
          /\ result' = Thrown(MsgFailedToStart)
          /\ mediaRecorder' = "inactive"
          /\ audioChunks' = <<>>
          /\ delivered' = 0
          /\ UNCHANGED <<stream, recordingStartTime>>
       \/ /\ err = ""
          /\ recordingStartTime < MaxStarts
          /\ result' = Void
          /\ mediaRecorder' = "recording"
          /\ audioChunks' = <<>>
          /\ delivered' = 0
          /\ recordingStartTime' = recordingStartTime + 1
          /\ UNCHANGED stream
    /\ UNCHANGED <<pendingInit, pendingStop, beyondSession>>

\* stopRecording(), up to the stop event it waits for
SessionStopRecording ==
    /\ IF stopRecordingError # ""
       THEN /\ result' = Thrown(stopRecordingError)
            /\ UNCHANGED <<mediaRecorder, pendingStop, delivered>>
       ELSE /\ InFlight < limit.inFlight
            /\ mediaRecorder' = "inactive"
            /\ pendingStop' = Append(pendingStop, [awaited |-> TRUE, delivered |-> delivered])
            /\ delivered' = 0
            /\ result' = [kind |-> "pending"]
    /\ UNCHANGED <<stream, audioChunks, recordingStartTime, pendingInit, beyondSession>>

\* the last dataavailable and the stop event of a stopped MediaRecorder; the
\* listener of stopRecording settles its promise
SessionStopEvent ==
    /\ pendingStop # <<>>
    /\ pendingStop' = Tail(pendingStop)
    /\ \E size \in 0..limit.chunkSize :
          LET chunks == pushChunk(audioChunks, size) IN
          /\ size > 0 => Len(audioChunks) < limit.chunks
          /\ audioChunks' = chunks
          /\ result' = IF ~Head(pendingStop).awaited THEN result
                       ELSE IF stopListenerError(chunks) # ""
                            THEN Thrown(stopListenerError(chunks))
                            ELSE BlobOf(blobSize(chunks))
    /\ UNCHANGED <<stream, mediaRecorder, recordingStartTime, pendingInit, delivered,
                   beyondSession>>

\* a cleanup that keeps the buffer
cleanupKeepsChunks == audioChunks

\* cleanup: this.audioChunks = []
cleanupChunks == <<>>

\* cleanup()
SessionCleanup ==
    /\ IF mediaRecorder = "recording"
       THEN /\ InFlight < limit.inFlight
            /\ pendingStop' = Append(pendingStop, [awaited |-> FALSE, delivered |-> delivered])
       ELSE UNCHANGED pendingStop
    /\ mediaRecorder' = "null"
    /\ stream' = "none"
    /\ audioChunks' = cleanupChunks
    /\ delivered' = 0
    /\ result' = Void
    /\ UNCHANGED <<recordingStartTime, pendingInit, beyondSession>>

InitSession ==
    /\ Mounted
    /\ limit = [chunkSize |-> MaxChunkSize, chunks |-> MaxChunks,
                inFlight |-> MaxInFlight, timers |-> MaxTimers,
                responses |-> PlainResponses]
    /\ seen = <<>>

NextSession ==
    \/ SessionInitialize
    \/ SessionInitializeResolves
    \/ SessionInitializeRejects
    \/ SessionStartRecording
    \/ SessionStopRecording
    \/ SessionStopEvent
    \/ SessionCleanup
    \/ DataAvailable /\ UNCHANGED <<seen, outside>>
    \/ DeviceLost /\ UNCHANGED <<seen, outside>>
    \/ RecorderEnds /\ UNCHANGED <<seen, outside>>

SpecSession == InitSession /\ [][NextSession]_vars

\* ------------------------------------ cleanup beside the controller
\* cleanupAudioRecorder() calls cleanup() of the shared AudioRecorder
\* directly; the refs of the controller are not involved
NextCleanup ==
    \/ Next
    \/ SessionCleanup

SpecCleanup == InitConfig /\ [][NextCleanup]_vars

\* ------------------------------------------------- getMimeType alone
\* getMimeType called with a format of the type AudioFormat or with a string
\* that is none, in a runtime with any support matrix
GetMimeType(format) ==
    /\ result' = getMimeType(format)
    /\ UNCHANGED <<core, seen, store, hidden, recordingStartTime, supported, button>>

InitMime ==
    /\ Setup
    /\ supported \in SUBSET MimeTypes
    /\ typeSupported = (getMimeType("webm").value \in supported)
    /\ configuration.endpoint = Endpoint
    /\ limit = [chunkSize |-> MaxChunkSize, chunks |-> MaxChunks,
                inFlight |-> MaxInFlight, timers |-> MaxTimers,
                responses |-> PlainResponses]
    /\ seen = <<>>

NextMime == \E format \in AudioFormats \cup {"flac"} : GetMimeType(format)

SpecMime == InitMime /\ [][NextMime]_vars

\* ------------------------------------- the capture session and the format
\* checkFormatSupport(format)
checkFormatSupport(format) ==
    \E i \in DOMAIN MIME_TYPE_MAP[format] : MIME_TYPE_MAP[format][i] \in supported

\* startRecording(format) of the capture session, in a runtime with the
\* support matrix supported
StartRecordingFormat(format) ==
    /\ LET mimeType == getMimeType(format).value
           err == IF stream = "none" THEN MsgNotInitialized
                  ELSE IF mediaRecorder = "recording" THEN MsgAlreadyRecording
                  ELSE IF mimeType \notin supported THEN MsgUnsupportedFormat
                  ELSE ""
       IN
       \/ /\ err # ""
          /\ result' = [kind |-> "start:thrown", format |-> format, value |-> err]
          /\ UNCHANGED <<session, delivered>>
       \/ /\ err = ""
          /\ stream = "ended"
          /\ result' = [kind |-> "start:thrown", format |-> format, value |-> MsgFailedToStart]
          /\ mediaRecorder' = "inactive"
          /\ audioChunks' = <<>>
          /\ delivered' = 0
          /\ UNCHANGED <<stream, recordingStartTime>>
       \/ /\ err = ""
          /\ recordingStartTime < MaxStarts
          /\ result' = [kind |-> "start:ok", format |-> format, value |-> mimeType]
          /\ mediaRecorder' = "recording"
          /\ audioChunks' = <<>>
          /\ delivered' = 0
          /\ recordingStartTime' = recordingStartTime + 1
          /\ UNCHANGED stream
    /\ UNCHANGED <<pendingInit, pendingStop, beyondSession>>

\* runtimes that support any of the WebM and WAV types and no other
InitFormat ==
    /\ Setup
    /\ supported \in SUBSET {MIME_TYPE_MAP[f][i] : f \in {"webm", "wav"}, i \in 1..3}
    /\ typeSupported = (getMimeType("webm").value \in supported)
    /\ configuration.endpoint = Endpoint
    /\ limit = [chunkSize |-> MaxChunkSize - 1, chunks |-> MaxChunks - 1,
                inFlight |-> MaxInFlight - 1, timers |-> MaxTimers - 1,
                responses |-> PlainResponses]
    /\ seen = <<>>

NextFormat ==
    \/ SessionInitialize
    \/ SessionInitializeResolves
    \/ \E format \in AudioFormats : StartRecordingFormat(format)
    \/ SessionStopEvent
    \/ SessionCleanup

SpecFormat == InitFormat /\ [][NextFormat]_vars

\* ------------------------------------------------------------- progress
\* What the platform guarantees: a stopped MediaRecorder dispatches its stop
\* event, a fetch settles (with a response, with a network error, or aborted
\* by the 30 s timer of makeRequest), and a setTimeout callback runs.
\* Nothing bounds the read of a response body: the timer of makeRequest is
\* cleared as soon as fetch has resolved with the headers.
StopEventArrives == StopEvent /\ UNCHANGED <<seen, outside>>

FetchSettles ==
    \E i \in DOMAIN pendingSend : (FetchResponds(i) \/ FetchFails(i)) /\ UNCHANGED <<seen, outside>>

TimerRuns == \E i \in DOMAIN timers : TimerFires(i) /\ UNCHANGED <<seen, outside>>

Fairness ==
    /\ WF_vars(StopEventArrives)
    /\ WF_vars(FetchSettles)
    /\ WF_vars(TimerRuns)

SpecLive == InitConfig /\ [][Next]_vars /\ Fairness

\* ------------------------------------------------- one press/release cycle
\* One press and one release with everything in the user's favour: the
\* destination is configured, the format is supported, the permission is
\* granted when asked, the device stays, the capture is not empty and the
\* endpoint answers 200.  seen records the distinct status values from the
\* press on.
CycleStatuses == <<"idle", "recording", "transmitting", "success", "idle">>

IsPrefix(s, t) == Len(s) <= Len(t) /\ \A k \in 1..Len(s) : s[k] = t[k]

Track(s) == IF recordingStatus' # s[Len(s)] THEN Append(s, recordingStatus') ELSE s

Observe == seen' = IF seen = <<>> THEN <<>> ELSE Track(seen)

InitCycle ==
    /\ Mounted
    /\ configuration.endpoint = Endpoint
    /\ typeSupported
    /\ limit = [chunkSize |-> MaxChunkSize, chunks |-> MaxChunks,
                inFlight |-> MaxInFlight, timers |-> MaxTimers,
                responses |-> PlainResponses]
    /\ seen = <<>>

\* the press of the cycle (from idle), or a press that is ignored
Press ==
    /\ StartRecording
    /\ UNCHANGED outside
    /\ IF isActive THEN Observe
       ELSE /\ seen = <<>>
            /\ recordingStatus = "idle"
            /\ seen' = Track(<<recordingStatus>>)

NextCycle ==
    \/ Press
    \/ seen = <<>> /\ HandleButtonClick /\ Observe /\ UNCHANGED outside
    \/ \E caller \in {"start", "request"} : InitializeGranted(caller) /\ Observe /\ UNCHANGED outside
    \/ StopRecording /\ Observe /\ UNCHANGED outside
    \/ DataAvailable /\ Observe /\ UNCHANGED outside
    \/ StopEvent /\ audioChunks' # <<>> /\ Observe /\ UNCHANGED outside
    \/ \E i \in DOMAIN pendingSend :
          FetchResponds(i) /\ responseOk(pendingSend'[i].status) /\ Observe /\ UNCHANGED outside
    \/ \E i \in DOMAIN pendingSend : BodyRead(i) /\ Observe /\ UNCHANGED outside
    \/ \E i \in DOMAIN timers : TimerFires(i) /\ Observe /\ UNCHANGED outside
    \/ CheckHealth /\ Observe /\ UNCHANGED outside

SpecCycle == InitCycle /\ [][NextCycle]_vars

TypeOK ==
    /\ isRecording \in BOOLEAN /\ isTransmitting \in BOOLEAN /\ canRecord \in BOOLEAN
    /\ recordingStatus \in RecordingStatus
    /\ stream \in {"none", "live", "ended"}
    /\ mediaRecorder \in {"null", "recording", "inactive"}
    /\ Len(audioChunks) <= limit.chunks
    /\ InFlight <= limit.inFlight
    /\ Len(timers) <= limit.timers

\* ------------------------------------------------------------------ claims
\* C1: a startRecording call made while the controller is recording or
\* transmitting changes nothing: the five refs and the capture session stay
\* as they are, and no permission request, capture or send is issued.
C1_ExclusiveCapture ==
    [][(StartRecording /\ (isRecording \/ isTransmitting))
          => UNCHANGED <<ctl, rec, async, timers>>]_vars

\* C1 witness: startRecording was called, and ignored, during a transmission
C1_Witness ==
    lastOp = "startRecording:ignored" /\ isTransmitting /\ pendingSend # <<>>

\* C2: a stopRecording call made while isRecording is false changes nothing:
\* no ref changes, the capture is not finalized and nothing is sent.
C2_StopIgnored ==
    [][(StopRecording /\ ~isRecording)
          => UNCHANGED <<ctl, rec, async, timers>>]_vars

\* C2 witness: stopRecording was called, and ignored, during a transmission
C2_Witness ==
    lastOp = "stopRecording:ignored" /\ recordingStatus = "transmitting"

\* C3: once the send of the cycle has succeeded, the distinct values of
\* recordingStatus seen from the press on are idle, recording,
\* transmitting, success and then idle, in this order and with nothing in
\* between.
C3_CycleStatusSequence ==
    (\E k \in DOMAIN seen : seen[k] = "success") => IsPrefix(seen, CycleStatuses)

\* C4: a stop that is reached with zero buffered chunks fails with
\* 'No audio data recorded' and issues no request, and no request in flight
\* ever carries a zero-byte payload.
C4_EmptyRecordingGuard ==
    /\ [](\A i \in DOMAIN pendingSend : pendingSend[i].size > 0)
    /\ [][(StopEvent /\ Head(pendingStop).awaited /\ audioChunks' = <<>>)
             => /\ errorMessage' = MsgNoAudioData
                /\ recordingStatus' = "error"
                /\ pendingSend' = pendingSend]_vars

C4_Witness ==
    /\ lastOp = "stopRecording:failed"
    /\ errorMessage = MsgNoAudioData
    /\ audioChunks = <<>>
    /\ pendingSend = <<>>

\* C5: the payload handed to the send has the size of all the data delivered
\* to the capture between its start and its stop event, and the buffer never
\* holds a zero-size chunk.
C5_NoLossAssembly ==
    /\ [](\A k \in DOMAIN audioChunks : audioChunks[k] > 0)
    /\ [][(StopEvent /\ Head(pendingStop).awaited /\ Len(pendingSend') > Len(pendingSend))
             => pendingSend'[Len(pendingSend')].size =
                   Head(pendingStop).delivered + (Sum(audioChunks') - Sum(audioChunks))]_vars

\* C6: when finalizing the capture or sending fails, stopRecording ends with
\* status error, the failure's message, and isRecording and isTransmitting
\* both false.
C6_StopFailureEndsInError ==
    lastOp = "stopRecording:failed"
       => /\ recordingStatus = "error"
          /\ errorMessage \in {MsgNoActiveRecording, MsgRecordingNotActive,
                               MsgNoAudioData, MsgEndpointRequired, MsgBlobEmpty,
                               MsgFailedToFetch, MsgTimeout, Msg404, Msg500}
          /\ ~isRecording
          /\ ~isTransmitting

\* C7: a revert timer that fires after another status transition has
\* happened since its success leaves the status as it is.
C7_RevertOnlyOwnSuccess ==
    [][\A i \in DOMAIN timers :
          (TimerFires(i) /\ timers[i].kind = "revert" /\ timers[i].stale)
             => recordingStatus' = recordingStatus]_vars

\* C8: whenever an error message is displayed, the timer that will clear it
\* is pending.
C8_ErrorAutoClears ==
    errorMessage # ""
       => \E i \in DOMAIN timers :
             timers[i].kind = "error" /\ timers[i].message = errorMessage

\* C9: the timer of an error that was superseded by a newer error leaves
\* errorMessage and recordingStatus unchanged when it fires.
C9_OlderTimerKeepsNewerError ==
    [][\A i \in DOMAIN timers :
          (TimerFires(i) /\ timers[i].kind = "error" /\ timers[i].stale)
             => UNCHANGED <<errorMessage, recordingStatus>>]_vars

\* C10: a sendAudio call issues one POST request, a request is issued only
\* for a stop the user made and that had none yet, and a failed stop issues
\* none.
C10_NoAutomaticRetry ==
    /\ [](unsent >= 0 /\ \A i \in DOMAIN pendingSend : pendingSend[i].requests = 1)
    /\ [][Len(pendingSend') > Len(pendingSend)
             => Len(pendingSend') = Len(pendingSend) + 1 /\ unsent' = unsent - 1]_vars
    /\ [][unsent' > unsent => StopRecording]_vars
    /\ [][lastOp' = "stopRecording:failed" => Len(pendingSend') <= Len(pendingSend)]_vars

\* C10 witness: a transmission failed and nothing is in flight afterwards
C10_Witness ==
    /\ lastOp = "stopRecording:failed"
    /\ errorMessage = MsgFailedToFetch
    /\ pendingSend = <<>>
    /\ pendingStop = <<>>
    /\ unsent = 0

\* C11: sendAudio called with an empty endpoint throws 'Endpoint URL is
\* required', called with an endpoint and a zero-size blob it throws 'Audio
\* blob is empty or invalid', and in both cases no request is issued; with
\* an endpoint and a non-empty blob one request is issued.
C11_SendAudioFailsFast ==
    [][\A endpoint \in {"", Endpoint}, size \in 0..limit.chunkSize :
          SendAudioCall(endpoint, size)
             => /\ endpoint = ""
                     => result' = Thrown(MsgEndpointRequired) /\ pendingSend' = pendingSend
                /\ (endpoint # "" /\ size = 0)
                     => result' = Thrown(MsgBlobEmpty) /\ pendingSend' = pendingSend
                /\ (endpoint # "" /\ size > 0)
                     => Len(pendingSend') = Len(pendingSend) + 1]_vars

\* C11 witness: a call was refused for its empty blob after another call was
\* accepted, and the accepted one is the only request
C11_Witness ==
    /\ result = Thrown(MsgBlobEmpty)
    /\ Len(pendingSend) = 1

\* C12: when the 30-second timer aborts a request that has no response yet,
\* the send ends with the timeout message, the status becomes error and
\* the call is over; the status only becomes success by a send whose
\* response arrived.
C12_TimeoutEndsInError ==
    /\ [][\A i \in DOMAIN pendingSend :
             FetchRejects(i, "AbortError")
                => /\ errorMessage' = MsgTimeout
                   /\ recordingStatus' = "error"
                   /\ ~isTransmitting'
                   /\ pendingSend' = Remove(pendingSend, i)]_vars
    /\ [][(recordingStatus' = "success" /\ recordingStatus # "success")
             => \E i \in DOMAIN pendingSend :
                   pendingSend[i].phase = "body" /\ BodyRead(i)]_vars

\* C12 witness: a request timed out
C12_Witness ==
    /\ lastOp = "stopRecording:failed"
    /\ errorMessage = MsgTimeout
    /\ recordingStatus = "error"
    /\ ~isTransmitting

\* C13: the result of a response has success = true exactly when its status
\* is in 200..299, whatever its reason phrase and body; reading the body of
\* such a response sets status success, of any other it sets status error;
\* and the status becomes success in no other way.
C13_SuccessIffStatus2xx ==
    /\ [](\A i \in DOMAIN pendingSend :
             pendingSend[i].phase = "body"
                => \A body \in limit.responses.bodies :
                      handleResponse(pendingSend[i].status, pendingSend[i].statusText,
                                     body).success
                         <=> pendingSend[i].status \in 200..299)
    /\ [][\A i \in DOMAIN pendingSend :
             BodyRead(i)
                => IF pendingSend[i].status \in 200..299
                   THEN recordingStatus' = "success"
                   ELSE recordingStatus' = "error" /\ errorMessage' # ""]_vars
    /\ [][(recordingStatus' = "success" /\ recordingStatus # "success")
             => \E i \in DOMAIN pendingSend :
                   pendingSend[i].status \in 200..299 /\ BodyRead(i)]_vars

\* C13 witness: a response with a status outside the range and without a
\* fixed explanation (300 or 418) ended the stop in error with what the
\* server sent
C13_Witness ==
    /\ recordingStatus = "error"
    /\ lastOp = "stopRecording:failed"
    /\ errorMessage \in {ReasonPhrase, ServerMessage, TextBody, MsgUnknownError}

\* C14: for a response with one of the eleven well-known error statuses the
\* result message is the fixed explanation of that status (404: endpoint not
\* found, 500: server error), whatever the reason phrase and the body; for
\* any other status outside 200..299 it is what the server sent (the message
\* of a JSON body, else the text body, else the reason phrase) or 'Unknown
\* error'.
C14_ClassificationDeterministic ==
    (result.kind = "returned" /\ result.status \notin 200..299)
       => /\ result.status = 404 => result.message = Msg404
          /\ result.status = 500 => result.message = Msg500
          /\ result.status \in {400, 401, 403, 404, 413, 422, 429, 500, 502, 503, 504}
                => result.message = statusMessages[result.status]
          /\ result.status \notin {400, 401, 403, 404, 413, 422, 429, 500, 502, 503, 504}
                => result.message \in {ServerMessage, TextBody, ReasonPhrase, MsgUnknownError}

\* C14 witness: a 404 response was classified
C14_Witness ==
    /\ result.kind = "returned"
    /\ result.status = 404
    /\ result.message = Msg404

\* C15: a startRecording call made while the controller's endpoint is empty
\* sets the error 'Endpoint not configured' and starts nothing: no
\* permission request, no capture, no send; and with an empty endpoint the
\* controller is never recording or transmitting.
C15_NoDestinationNoCapture ==
    /\ [](configuration.endpoint = ""
             => /\ ~isRecording /\ ~isTransmitting
                /\ recordingStatus \notin {"recording", "transmitting", "success"}
                /\ mediaRecorder = "null"
                /\ pendingInit.start = 0
                /\ pendingStop = <<>> /\ pendingSend = <<>>)
    /\ [][(StartRecording /\ configuration.endpoint = "")
             => /\ errorMessage' = MsgEndpointNotConfigured
                /\ recordingStatus' = "error"
                /\ UNCHANGED <<isRecording, isTransmitting, canRecord, rec, async>>]_vars

\* C15 witness: the microphone was granted (button click), and a start was
\* still refused for the missing endpoint
C15_Witness ==
    /\ configuration.endpoint = ""
    /\ canRecord /\ stream = "live"
    /\ recordingStatus = "error"
    /\ errorMessage = MsgEndpointNotConfigured

\* C18: when the endpoint of the configuration becomes empty while the
\* controller is recording or transmitting, the capture is aborted, both
\* flags become false and the status becomes error with 'Endpoint
\* configuration removed'.
C18_ConfigurationRemovedAborts ==
    [][(store.endpoint # "" /\ store'.endpoint = "" /\ (isRecording \/ isTransmitting))
          => /\ ~isRecording' /\ ~isTransmitting'
             /\ recordingStatus' = "error"
             /\ errorMessage' = MsgConfigurationRemoved
             /\ mediaRecorder' # "recording"]_vars

\* C19: a press made after the store's endpoint was set passes the endpoint
\* guard, and a recording starts and a send is issued with the endpoint and
\* format the store holds at that moment.
C19_ConfigurationReRead ==
    /\ [][(StartRecording /\ ~isActive /\ store.endpoint # "")
             => errorMessage' # MsgEndpointNotConfigured]_vars
    /\ [][(isRecording' /\ ~isRecording)
             => configuration.audioFormat = store.audioFormat]_vars
    /\ [][Len(pendingSend') > Len(pendingSend)
             => /\ pendingSend'[Len(pendingSend')].endpoint = store.endpoint
                /\ pendingSend'[Len(pendingSend')].format = store.audioFormat]_vars

\* C16: when the permission request made by startRecording fails, the
\* attempt ends with canRecord false, status error, the message of the
\* platform error, isRecording false and the capture session untouched; and
\* a later startRecording asks for the permission again.
C16_PermissionDenialAbandons ==
    /\ [][\A err \in PlatformErrors :
             InitializeRejects("start", err)
                => /\ ~canRecord'
                   /\ recordingStatus' = "error"
                   /\ errorMessage' = (IF err = "NotAllowedError" THEN MsgAccessDenied
                                                                 ELSE MsgNoMicrophone)
                   /\ ~isRecording'
                   /\ UNCHANGED rec]_vars
    /\ [][(StartRecording /\ ~isActive /\ configuration.endpoint # "" /\ ~canRecord)
             => pendingInit'.start = pendingInit.start + 1]_vars

\* C17: a health check made while the controller is idle with canRecord
\* true and the stream is gone or its track has ended sets canRecord false
\* and the status to error with 'Microphone connection lost'.
C17_HealthCheckDemotesIdle ==
    [][(CheckHealth /\ canRecord /\ recordingStatus = "idle" /\ ~isRecording
           /\ stream # "live")
          => /\ ~canRecord'
             /\ recordingStatus' = "error"
             /\ errorMessage' = MsgConnectionLost]_vars

\* C17 witness: the microphone was granted, no recording was ever started,
\* the device went away and the health check reported it
C17_Witness ==
    /\ stream = "ended"
    /\ mediaRecorder = "null"
    /\ ~canRecord /\ ~isRecording /\ ~isTransmitting
    /\ recordingStatus = "error"
    /\ errorMessage = MsgConnectionLost


\* C20: when the page becomes hidden while the controller is recording, stop
\* runs in the same step: the controller is no longer recording, the
\* MediaRecorder no longer captures, and the status is transmitting (the
\* capture is being finalized and sent) or error.  The state after the event
\* is thus never a recording one, so no recording outlives a visibility
\* loss that happened after it began.
C20_HiddenWhileRecordingStops ==
    [][(~hidden /\ hidden' /\ isRecording)
          => /\ ~isRecording'
             /\ mediaRecorder' # "recording"
             /\ recordingStatus' \in {"transmitting", "error"}
             /\ (recordingStatus' = "transmitting"
                    => isTransmitting' /\ Len(pendingStop') = Len(pendingStop) + 1)]_vars

\* the page is hidden, the recording it interrupted is stopped and its
\* capture awaits finalization for sending
C20_Witness ==
    /\ hidden
    /\ ~isRecording
    /\ isTransmitting
    /\ recordingStatus = "transmitting"
    /\ mediaRecorder = "inactive"
    /\ pendingStop # <<>>
    /\ lastOp = "-"

\* C21: resetRecording leaves no capture active, isRecording and
\* isTransmitting false, and a status that tells whether the capture session
\* is ready: idle exactly when it holds a stream, error otherwise.
C21_ResetReflectsReadiness ==
    [][ResetRecording
          => /\ ~isRecording'
             /\ ~isTransmitting'
             /\ mediaRecorder' # "recording"
             /\ recordingStatus' \in {"idle", "error"}
             /\ (recordingStatus' = "idle" <=> stream' # "none")]_vars

\* the capture session is uninitialized
C22_Uninitialized == stream = "none" /\ mediaRecorder = "null" /\ audioChunks = <<>>

\* the controller as a reset leaves it
C22_AfterReset ==
    /\ ~isRecording
    /\ ~isTransmitting
    /\ errorMessage = ""
    /\ recordingStatus = (IF canRecord THEN "idle" ELSE "error")

\* C22 as stated: cleanup and reset each end in the uninitialized session,
\* reset moreover in the idle controller, and a second call in a row changes
\* nothing.
C22_IdempotentCleanupIdle ==
    /\ [][SessionCleanup => C22_Uninitialized']_vars
    /\ [][(SessionCleanup /\ C22_Uninitialized) => UNCHANGED <<ctl, rec, async>>]_vars
    /\ [][ResetRecording => (C22_Uninitialized' /\ C22_AfterReset' /\ recordingStatus' = "idle")]_vars
    /\ [][(ResetRecording /\ C22_AfterReset) => UNCHANGED <<ctl, rec, async>>]_vars

\* C22 amended: cleanup ends in the uninitialized session and a second
\* cleanup in a row changes nothing; reset ends with isRecording and
\* isTransmitting false, no error message and the status idle when canRecord
\* holds and error otherwise, and a second reset in a row changes nothing.
C22_IdempotentCleanup ==
    /\ [][SessionCleanup => (C22_Uninitialized' /\ result' = Void)]_vars
    /\ [][(SessionCleanup /\ C22_Uninitialized) => UNCHANGED <<ctl, rec, async>>]_vars
    /\ [][ResetRecording => C22_AfterReset']_vars
    /\ [][(ResetRecording /\ C22_AfterReset) => UNCHANGED <<ctl, rec, async>>]_vars

\* C22 witness: cleanup was called on a running capture, whose stop event is
\* still to come, and the session is uninitialized
C22_Witness ==
    /\ result = Void
    /\ C22_Uninitialized
    /\ pendingStop # <<>>
    /\ ~pendingStop[Len(pendingStop)].awaited

\* C23: startRecording of the capture session throws 'Audio recorder not
\* initialized' when no stream is held and 'Already recording' when the
\* recorder is recording, and in both cases leaves the stream, the recorder,
\* the buffered chunks and the start timestamp as they were; hence a
\* recorder is never replaced while it records.
C23_StartRejectedLeavesSession ==
    /\ [][(SessionStartRecording /\ stream = "none")
             => (result' = Thrown(MsgNotInitialized) /\ UNCHANGED session)]_vars
    /\ [][(SessionStartRecording /\ stream # "none" /\ mediaRecorder = "recording")
             => (result' = Thrown(MsgAlreadyRecording) /\ UNCHANGED session)]_vars

\* C23 witness: a second startRecording was rejected during a recording that
\* already buffered data
C23_Witness ==
    /\ result = Thrown(MsgAlreadyRecording)
    /\ mediaRecorder = "recording"
    /\ stream = "live"
    /\ audioChunks # <<>>
    /\ recordingStartTime = 1

\* C24: when the release arrived while startRecording was suspended on the
\* permission request (the stop was ignored, nothing happened since, the
\* input is up), the start that resumes leaves no capture running.
C24_NoCaptureAfterRelease ==
    [][(lastOp = "stopRecording:ignored" /\ pendingInit.start > 0 /\ ~isRecording
           /\ mediaRecorder # "recording" /\ InitializeGranted("start"))
          => (mediaRecorder' # "recording" /\ ~isRecording')]_vars

\* C25 as stated: getMimeType returns, for a valid format, the first
\* candidate of the format the runtime supports, and the last candidate of
\* the format when it supports none; it throws for no valid format.
C25_FirstSupportedElseLast ==
    (result.kind \in {"mime", "thrown"} /\ result.format \in AudioFormats)
       => LET c   == MIME_TYPE_MAP[result.format]
              idx == {i \in DOMAIN c : c[i] \in supported}
          IN  /\ result.kind = "mime"
              /\ idx # {} => /\ result.value = c[CHOOSE i \in idx : \A j \in idx : i <= j]
              /\ idx = {} => result.value = c[Len(c)]

\* C25 amended: getMimeType returns, for a valid format, the first candidate
\* of the format the runtime supports, and the first (highest-priority)
\* candidate of the format when it supports none; it throws for no valid
\* format.
C25_FirstSupportedElseFirst ==
    (result.kind \in {"mime", "thrown"} /\ result.format \in AudioFormats)
       => LET c   == MIME_TYPE_MAP[result.format]
              idx == {i \in DOMAIN c : c[i] \in supported}
          IN  /\ result.kind = "mime"
              /\ idx # {} => /\ result.value = c[CHOOSE i \in idx : \A j \in idx : i <= j]
              /\ idx = {} => result.value = c[1]

\* C25 witness: the runtime supports no WAV type although it supports
\* others, and getMimeType('wav') returned audio/wav
C25_Witness ==
    /\ result.kind = "mime"
    /\ result.format = "wav"
    /\ supported # {}
    /\ \A i \in DOMAIN MIME_TYPE_MAP["wav"] : MIME_TYPE_MAP["wav"][i] \notin supported
    /\ result.value = "audio/wav"

\* C26: the flags agree with the status in every reachable state:
\* isRecording holds exactly when the status is recording and isTransmitting
\* exactly when it is transmitting (hence isActive exactly when it is one of
\* the two).
C26_FlagsAgreeWithStatus ==
    /\ isRecording <=> recordingStatus = "recording"
    /\ isTransmitting <=> recordingStatus = "transmitting"
    /\ isActive <=> recordingStatus \in {"recording", "transmitting"}

\* C27: in every reachable state with the status error and no operation in
\* flight the controller is neither recording nor transmitting, and a start
\* requested there with the destination configured is not turned away by
\* the guard against a running cycle.
C27_UsableAfterError ==
    /\ [](recordingStatus = "error" /\ InFlight = 0 => ~isRecording /\ ~isTransmitting)
    /\ [][(recordingStatus = "error" /\ InFlight = 0 /\ endpointConfigured /\ StartRecording)
             => lastOp' # "startRecording:ignored"]_vars

\* C28: whatever the interleaving of start requests, the capture session is
\* never capturing while isRecording is false, and a start that resumes
\* from the permission request while a capture runs starts no second one
\* and disturbs nothing.
C28_NoOverlappingStarts ==
    /\ [](mediaRecorder = "recording" => isRecording)
    /\ [][(InitializeGranted("start") /\ mediaRecorder = "recording")
             => UNCHANGED <<ctl, rec, timers>>]_vars

\* C29: once the controller transmits, isTransmitting eventually returns to
\* false, whatever the endpoint does.
C29_TransmittingEnds == isTransmitting ~> ~isTransmitting

\* C30: a health check made while canRecord is false leaves the status and
\* the error message as they are; in particular the freshly mounted
\* controller stays idle with no message.
C30_ProbeSparesUnready ==
    [][(CheckHealth /\ ~canRecord) => UNCHANGED <<recordingStatus, errorMessage>>]_vars

\* C31: the completion of a send whose cycle was aborted (a send is in
\* flight although the controller is not transmitting: a reset intervened)
\* changes neither recordingStatus nor isRecording nor isTransmitting.
C31_AbortedCycleStaysAborted ==
    [][(~isTransmitting /\ \E i \in DOMAIN pendingSend : FetchFails(i) \/ BodyRead(i))
          => UNCHANGED <<recordingStatus, isRecording, isTransmitting>>]_vars

\* C32: stopRecording of the capture session called with nothing capturing
\* (no recorder, or a recorder that is not recording) throws and changes
\* nothing; and once a stop has completed with its blob, the session holds
\* no buffered chunk of the finished recording.
C32_StopConsumesRecording ==
    /\ [][(SessionStopRecording /\ mediaRecorder # "recording")
             => /\ result' \in {Thrown(MsgNoActiveRecording), Thrown(MsgRecordingNotActive)}
                /\ UNCHANGED <<session, pendingStop>>]_vars
    /\ [][(SessionStopEvent /\ Head(pendingStop).awaited /\ result'.kind = "blob")
             => audioChunks' = <<>>]_vars

\* C33: on an initialized session with no recording running, startRecording
\* fails with the unsupported-format error exactly when checkFormatSupport
\* is false for the format, that is when the runtime supports none of its
\* candidate types; otherwise it records with a type the runtime supports.
C33_UnsupportedIffNoCandidate ==
    [][\A format \in AudioFormats :
          (StartRecordingFormat(format) /\ stream = "live" /\ mediaRecorder # "recording"
              /\ result'.kind \in {"start:thrown", "start:ok"})
             => LET none == \A i \in DOMAIN MIME_TYPE_MAP[format] :
                                MIME_TYPE_MAP[format][i] \notin supported
                IN  /\ checkFormatSupport(format) <=> ~none
                    /\ (result'.kind = "start:thrown" /\ result'.value = MsgUnsupportedFormat)
                          <=> ~checkFormatSupport(format)
                    /\ checkFormatSupport(format)
                          => (result'.kind = "start:ok" /\ result'.value \in supported
                                 /\ mediaRecorder' = "recording")]_vars

\* C33 witness: the runtime supports audio/wave alone among the WAV types
\* and startRecording('wav') records with it
C33_Witness ==
    /\ result.kind = "start:ok"
    /\ result.format = "wav"
    /\ result.value = "audio/wave"
    /\ "audio/wav" \notin supported
    /\ mediaRecorder = "recording"

\* C34: every transmission request that stopRecording builds carries the
\* elapsed duration of its recording: a measured value, never the word
\* 'unknown'.
C34_RequestCarriesDuration ==
    [][(StopEvent /\ Len(pendingSend') > Len(pendingSend))
          => pendingSend'[Len(pendingSend')].duration # "unknown"]_vars

C36_CanRecordImpliesReady ==
    /\ [](canRecord => isReady)
    /\ [][(StartRecording /\ canRecord) => errorMessage' # MsgNotInitialized]_vars

\* C37: a stream obtained by initialize never takes the place of a stream
\* that is still open: the session releases the stream it holds before it
\* stores another one, so that no open stream is left unreferenced.
C37_NoOpenStreamReplaced ==
    [][\A caller \in {"start", "request"} :
          InitializeGranted(caller) => stream # "live"]_vars

\* C38: a non-empty errorMessage implies the status error, in every
\* reachable state.
C38_MessageOnlyInError == errorMessage # "" => recordingStatus = "error"

\* ------------------------------------------------------- PushToTalkButton
\* App binds the button's disabled prop to !canRecord && !needsPermission
disabled == ~canRecord /\ ~needsPermission

\* App.handleButtonClick, the listener of start-recording, up to its first
\* suspension: requestMicrophoneAccess, or startRecording, or nothing
OnStartRecording ==
    IF needsPermission
    THEN HandleButtonClick
    ELSE IF canRecord
         THEN StartRecording
         ELSE UNCHANGED core

\* emit(event) with the value isPressed gets before it
emit(event, pressed, nowHeld) ==
    button' = [isPressed |-> pressed, held |-> nowHeld, emitted |-> event,
               emits |-> 1 - button.emits]

\* the button's startRecording, its listener run by the emit
buttonStartRecording(nowHeld) ==
    IF ~button.isPressed /\ ~disabled
    THEN /\ emit("start-recording", TRUE, nowHeld)
         /\ OnStartRecording
    ELSE /\ button' = [button EXCEPT !.held = nowHeld]
         /\ UNCHANGED core

\* the button's stopRecording, its listener (the controller's stopRecording,
\* up to its first suspension) run by the emit
buttonStopRecording(nowHeld) ==
    IF button.isPressed
    THEN /\ emit("stop-recording", FALSE, nowHeld)
         /\ StopRecording
    ELSE /\ button' = [button EXCEPT !.held = nowHeld]
         /\ UNCHANGED core

\* handleMouseDown, and handleTouchStart with the same body: the user puts
\* the pointer down on the button
handleMouseDown ==
    /\ ~button.held
    /\ IF disabled
       THEN /\ button' = [button EXCEPT !.held = TRUE]
            /\ UNCHANGED core
       ELSE buttonStartRecording(TRUE)
    /\ UNCHANGED <<seen, store, hidden, result, recordingStartTime, supported>>

\* handleMouseUp, and handleTouchEnd with the same body: the user releases
\* the pointer over the button
handleMouseUp ==
    /\ button.held
    /\ IF disabled
       THEN /\ button' = [button EXCEPT !.held = FALSE]
            /\ UNCHANGED core
       ELSE buttonStopRecording(FALSE)
    /\ UNCHANGED <<seen, store, hidden, result, recordingStartTime, supported>>

\* handleMouseLeave, and handleTouchCancel with the same body: the pointer
\* leaves the button, whose later release the button does not hear of
handleMouseLeave ==
    /\ buttonStopRecording(FALSE)
    /\ UNCHANGED <<seen, store, hidden, result, recordingStartTime, supported>>

\* the App: the button over the controller, one operation in flight at a time
InitButton ==
    /\ Mounted
    /\ limit = [chunkSize |-> MaxChunkSize - 1, chunks |-> MaxChunks - 1,
                inFlight |-> MaxInFlight - 1, timers |-> MaxTimers - 1,
                responses |-> PlainResponses]
    /\ seen = <<>>

NextButton ==
    \/ handleMouseDown
    \/ handleMouseUp
    \/ handleMouseLeave
    \/ Next

SpecButton == InitButton /\ [][NextButton]_vars

\* C39: the button pairs its events.  It is never left pressed once the
\* pointer is released; start-recording and stop-recording alternate,
\* start-recording first; and a release over the button that finds it
\* pressed emits stop-recording, whatever the disabled prop is by then.
C39_EventsPaired ==
    /\ [](~button.held => ~button.isPressed)
    /\ [][button'.emits # button.emits
            => /\ button'.emitted # button.emitted
               /\ button.emitted = "none" => button'.emitted = "start-recording"]_vars
    /\ [][(handleMouseUp /\ button.isPressed)
            => /\ button'.emits # button.emits
               /\ button'.emitted = "stop-recording"]_vars

====
